---- MODULE Spec2Model ----
(***************************************************************************)
(* The SRE incident response workflow of entities/sre_incident/workflow.py *)
(* run by a directed-graph workflow engine: five executors chained by      *)
(* edges, typed messages between them, and a request/response suspension   *)
(* at the triage stage.                                                    *)
(*                                                                         *)
(* Text is modelled as a sequence of words (a title, a resource name split *)
(* at its dashes, an approval split at its blanks), so that startswith,    *)
(* split, "in" and upper() are computed and not assumed.  Gauges are in    *)
(* tenths of a percent (94.7 is 947).                                      *)
(***************************************************************************)
EXTENDS Integers, Sequences, FiniteSets, TLC

VARIABLES
    alert,        \* the AlertInput submitted to the run ("none" before)
    status,       \* Idle, Running, Suspended, Completed, Failed, Abandoned
    inflight,     \* messages routed to an executor and not yet dispatched
    pending,      \* PendingRequestTable: correlation id -> open request
    nextId,       \* next fresh correlation id
    outputs,      \* the run's ordered output sequence
    dispatched,   \* executors in the order messages were dispatched to them
    calls,        \* handlers and response handlers in the order they ran
    sent,         \* send_message calls: who sent which message type
    delivered,    \* responses handed to a response handler, in order
    resumes       \* the resume calls so far and how each ended

vars == <<alert, status, inflight, pending, nextId, outputs, dispatched,
          calls, sent, delivered, resumes>>

\* ------------------------------------------------------------------ bounds

MaxResumes == 2

\* ------------------------------------------------------------ input domain

\* AlertInput.severity is a Literal of these four values.
AlertSeverities == {"critical", "high", "medium", "low"}

AlertIds == {"", "ALT-2026-0131-001"}

Titles == {<<>>, <<"Database", "Server", "CPU", "Critical">>}

Descriptions ==
    {<<"vm-db-01", "CPU", "utilization", "exceeded", "90%">>,
     <<"Disk", "latency", "spike">>}

\* resource names, split at "-"
Resources == {<<"vm", "db", "01">>, <<"vm", "api", "02">>, <<"web", "cache", "03">>}

Num(n) == [t |-> "num", n |-> n]

Text == [t |-> "str"]

\* the metrics field is a str holding JSON text
MetricsTexts ==
    {[json |-> "object", items |-> [k \in {"cpu_percent", "memory_percent"} |->
                                      IF k = "cpu_percent" THEN Num(947) ELSE Num(885)]],
     [json |-> "object", items |-> [k \in {"cpu_percent"} |-> Num(947)]],
     [json |-> "object", items |-> [k \in {"cpu_percent", "memory_percent"} |-> Num(500)]],
     [json |-> "object", items |-> [k \in {"cpu_percent"} |-> Text]],
     [json |-> "malformed"],
     [json |-> "list"],
     [json |-> "null"]}

Alerts ==
    [alert_id : AlertIds, title : Titles, severity : AlertSeverities,
     description : Descriptions, source : {"Azure Monitor"},
     resource : Resources, metrics : MetricsTexts]

\* TriageApproval.approved is a Literal of these four values, split at blanks.
ApprovedValues ==
    {<<"approve">>, <<"override", "to", "sev1">>,
     <<"override", "to", "sev2">>, <<"override", "to", "sev3">>}

TriageApproval == [type : {"TriageApproval"}, approved : ApprovedValues, notes : {""}]

\* what a caller may hand to resume: an approval, or a value of another type
Responses == TriageApproval \cup {[type |-> "str", value |-> "approve"]}

CorrelationIds == 1..2

\* ------------------------------------------------------------ text helpers

Lower(w) ==
    CASE w = "CPU" -> "cpu"
      [] w = "Disk" -> "disk"
      [] w = "Database" -> "database"
      [] w = "Server" -> "server"
      [] w = "Critical" -> "critical"
      [] OTHER -> w

Upper(w) ==
    CASE w = "sev1" -> "SEV1"
      [] w = "sev2" -> "SEV2"
      [] w = "sev3" -> "SEV3"
      [] w = "sev4" -> "SEV4"
      [] OTHER -> w

\* keyword in text.lower()
ContainsLower(text, keyword) == \E i \in 1..Len(text) : Lower(text[i]) = keyword

\* word in text
Contains(text, word) == \E i \in 1..Len(text) : text[i] = word

StartsWith(text, prefix) ==
    /\ Len(prefix) <= Len(text)
    /\ SubSeq(text, 1, Len(prefix)) = prefix

EmptyDict == [k \in {} |-> Num(0)]

\* dict.get(key, 0)
Get(d, key) == IF key \in DOMAIN d THEN d[key] ELSE Num(0)

\* an effect is what one handler invocation did through its context
NoEffect == [raised |-> FALSE, sends |-> <<>>, requests |-> <<>>, yields |-> <<>>]

Raise == [raised |-> TRUE, sends |-> <<>>, requests |-> <<>>, yields |-> <<>>]

Send(type, body) == [NoEffect EXCEPT !.sends = <<[type |-> type, body |-> body]>>]

Request(payload, responseType) ==
    [NoEffect EXCEPT !.requests = <<[payload |-> payload, expected |-> responseType]>>]

Yield(value) == [NoEffect EXCEPT !.yields = <<value>>]

\* ----------------------------------------------------------- AlertProcessor

\* json.loads(alert.metrics): the parsed value, or JSONDecodeError
json_loads(text) ==
    CASE text.json = "object" -> [ok |-> TRUE, value |-> [py |-> "dict", items |-> text.items]]
      [] text.json = "malformed" -> [ok |-> FALSE]
      [] OTHER -> [ok |-> TRUE, value |-> [py |-> text.json]]

parse_metrics(a) ==
    IF json_loads(a.metrics).ok
    THEN json_loads(a.metrics).value
    ELSE [py |-> "dict", items |-> EmptyDict]

validation_errors(a) ==
    (IF a.alert_id = "" THEN <<"Missing alert_id">> ELSE <<>>)
    \o (IF a.title = <<>> THEN <<"Missing title">> ELSE <<>>)
    \o (IF a.severity \notin {"critical", "high", "medium", "low"}
        THEN <<"Invalid severity">> ELSE <<>>)

\* mutant: is_valid left at its default, True
ProcessedAlert_default_valid(a) ==
    [alert_id |-> a.alert_id,
     title |-> a.title,
     severity |-> a.severity,
     description |-> a.description,
     source |-> a.source,
     resource |-> a.resource,
     metrics |-> parse_metrics(a),
     is_valid |-> TRUE,
     validation_errors |-> validation_errors(a)]

ProcessedAlert(a) ==
    [alert_id |-> a.alert_id,
     title |-> a.title,
     severity |-> a.severity,
     description |-> a.description,
     source |-> a.source,
     resource |-> a.resource,
     metrics |-> parse_metrics(a),
     is_valid |-> Len(validation_errors(a)) = 0,
     validation_errors |-> validation_errors(a)]

process_alert(a) == Send("ProcessedAlert", ProcessedAlert(a))

\* --------------------------------------------------- IncidentTriageExecutor

\* SERVICE_TEAMS in dict order, the prefixes split at "-"
SERVICE_TEAMS ==
    << <<<<"vm", "db">>, "platform-sre-team">>,
       <<<<"vm", "prod">>, "backend-team">>,
       <<<<"vm", "api">>, "api-team">>,
       <<<<"vm", "cache">>, "platform-team">> >>

\* RUNBOOKS in dict order
RUNBOOKS ==
    << <<"cpu", "runbooks/high-cpu">>,
       <<"memory", "runbooks/high-memory">>,
       <<"disk", "runbooks/disk-space">>,
       <<"network", "runbooks/network-issues">>,
       <<"default", "runbooks/general-triage">> >>

\* mutant: the table shifted by one row
severity_map_shifted(sev) ==
    CASE sev = "critical" -> "sev2"
      [] sev = "high" -> "sev3"
      [] sev = "medium" -> "sev4"
      [] sev = "low" -> "sev4"
      [] OTHER -> "sev3"

severity_map(sev) ==
    CASE sev = "critical" -> "sev1"
      [] sev = "high" -> "sev2"
      [] sev = "medium" -> "sev3"
      [] sev = "low" -> "sev4"
      [] OTHER -> "sev3"

priority_map(isev) ==
    CASE isev = "sev1" -> "P1"
      [] isev = "sev2" -> "P2"
      [] isev = "sev3" -> "P3"
      [] isev = "sev4" -> "P4"

\* first team whose prefix the resource starts with, else the default
assigned_team(pa) ==
    LET hits == {i \in 1..Len(SERVICE_TEAMS) : StartsWith(pa.resource, SERVICE_TEAMS[i][1])}
    IN  IF hits = {} THEN "platform-sre-team"
        ELSE SERVICE_TEAMS[CHOOSE i \in hits : \A j \in hits : i <= j][2]

affected_services(pa) ==
    IF Contains(pa.resource, "db")
    THEN <<"database-primary", "order-service", "inventory-service">>
    ELSE IF Contains(pa.resource, "api")
    THEN <<"api-gateway", "payment-service">>
    ELSE IF Contains(pa.resource, "cache")
    THEN <<"redis-cache", "session-service">>
    ELSE <<pa.resource>>

\* first runbook whose keyword is in the lowered title or description
runbook_url(pa) ==
    LET hits == {i \in 1..Len(RUNBOOKS) :
                    \/ ContainsLower(pa.title, RUNBOOKS[i][1])
                    \/ ContainsLower(pa.description, RUNBOOKS[i][1])}
    IN  IF hits = {} THEN "runbooks/general-triage"
        ELSE RUNBOOKS[CHOOSE i \in hits : \A j \in hits : i <= j][2]

\* metrics.get(key, 0) > limit raises when metrics is no dict (AttributeError)
\* or the gauge is no number (TypeError)
gauge_raises(metrics, key) ==
    \/ metrics.py # "dict"
    \/ Get(metrics.items, key).t # "num"

gauge_above(metrics, key, limit) == Get(metrics.items, key).n > limit

triage_raises(pa) ==
    \/ gauge_raises(pa.metrics, "cpu_percent")
    \/ gauge_raises(pa.metrics, "memory_percent")

recommended_actions(pa) ==
    LET cpu == IF gauge_above(pa.metrics, "cpu_percent", 900)
               THEN <<"Check for runaway processes", "Consider scaling up or out">>
               ELSE <<>>
        mem == IF gauge_above(pa.metrics, "memory_percent", 850)
               THEN <<"Identify memory-intensive queries", "Check for memory leaks">>
               ELSE <<>>
    IN  IF cpu \o mem = <<>>
        THEN <<"Review recent deployments", "Check system logs for errors">>
        ELSE cpu \o mem

\* the keys whose value is a number above 80, in dict order
elevated(metrics) ==
    LET keys == <<"cpu_percent", "memory_percent">>
        Hot(k) == /\ k \in DOMAIN metrics.items
                  /\ metrics.items[k].t = "num"
                  /\ metrics.items[k].n > 800
    IN  SelectSeq(keys, Hot)

incident_title(isev, title) == <<"[", Upper(isev), "]">> \o title

TriageResult(pa) ==
    LET isev == severity_map(pa.severity)
    IN  [alert |-> pa,
         incident_severity |-> isev,
         incident_title |-> incident_title(isev, pa.title),
         summary |-> [description |-> pa.description,
                      resource |-> pa.resource,
                      elevated |-> elevated(pa.metrics)],
         affected_services |-> affected_services(pa),
         recommended_actions |-> recommended_actions(pa),
         assigned_team |-> assigned_team(pa),
         runbook_url |-> runbook_url(pa),
         priority |-> priority_map(isev)]

\* mutant: only sev1 asks for an approval
needs_approval_sev1_only(isev) == isev = "sev1"

\* sev1 and sev2 ask for a human approval, the others go on
needs_approval(isev) == isev \in {"sev1", "sev2"}

\* mutant: the request records the payload's type as the response type
triage_alert_wrong_response_type(pa) ==
    IF triage_raises(pa) THEN Raise
    ELSE IF needs_approval(TriageResult(pa).incident_severity)
    THEN Request(TriageResult(pa), "TriageResult")
    ELSE Send("TriageResult", TriageResult(pa))

\* mutant: the else is missing, the triage is sent on in every case
triage_alert_no_else(pa) ==
    IF triage_raises(pa) THEN Raise
    ELSE IF needs_approval(TriageResult(pa).incident_severity)
    THEN [Request(TriageResult(pa), "TriageApproval") EXCEPT
            !.sends = <<[type |-> "TriageResult", body |-> TriageResult(pa)]>>]
    ELSE Send("TriageResult", TriageResult(pa))

triage_alert(pa) ==
    IF triage_raises(pa) THEN Raise
    ELSE IF needs_approval(TriageResult(pa).incident_severity)
    THEN Request(TriageResult(pa), "TriageApproval")
    ELSE Send("TriageResult", TriageResult(pa))

\* response.approved.split()[-1]
new_severity(response) == response.approved[Len(response.approved)]

override_priority(sev) ==
    CASE sev = "sev1" -> "P1"
      [] sev = "sev2" -> "P2"
      [] sev = "sev3" -> "P3"

is_override(response) == StartsWith(response.approved, <<"override">>)

\* mutant: the override leaves the title as it was
approved_triage_stale_title(original_triage, response) ==
    IF is_override(response)
    THEN [original_triage EXCEPT
            !.incident_severity = new_severity(response),
            !.priority = override_priority(new_severity(response))]
    ELSE original_triage

\* mutant: the override leaves the priority as it was
approved_triage_stale_priority(original_triage, response) ==
    IF is_override(response)
    THEN [original_triage EXCEPT
            !.incident_severity = new_severity(response),
            !.incident_title = incident_title(new_severity(response), original_triage.alert.title)]
    ELSE original_triage

approved_triage(original_triage, response) ==
    IF is_override(response)
    THEN [original_triage EXCEPT
            !.incident_severity = new_severity(response),
            !.incident_title = incident_title(new_severity(response), original_triage.alert.title),
            !.priority = override_priority(new_severity(response))]
    ELSE original_triage

\* mutant: the triage is sent before and after the override
handle_approval_twice(original_triage, response) ==
    [NoEffect EXCEPT !.sends =
        <<[type |-> "TriageResult", body |-> original_triage],
          [type |-> "TriageResult", body |-> approved_triage(original_triage, response)]>>]

handle_approval(original_triage, response) ==
    Send("TriageResult", approved_triage(original_triage, response))

\* ------------------------------------------------------- GitHubIssueCreator

\* hash(alert_id) % 10000 + 1000 depends on the interpreter's hash seed
IssueNumbers == {1000, 10999}

issue_labels(triage) ==
    << <<"severity:", triage.incident_severity>>,
       <<"priority:", triage.priority>>,
       <<"incident">>,
       <<triage.assigned_team>> >>

GitHubIssue(triage, number) ==
    [triage |-> triage,
     issue_number |-> number,
     issue_url |-> <<"https://github.com/contoso/incidents/issues/", ToString(number)>>,
     labels |-> issue_labels(triage)]

create_issue(triage, number) == Send("GitHubIssue", GitHubIssue(triage, number))

\* ------------------------------------------------------------ TeamsNotifier

channel_map(isev) ==
    CASE isev = "sev1" -> "#incident-critical"
      [] isev = "sev2" -> "#incident-high"
      [] isev = "sev3" -> "#ops-alerts"
      [] isev = "sev4" -> "#ops-info"
      [] OTHER -> "#ops-alerts"

TeamsNotification(issue) ==
    [github_issue |-> issue,
     channel |-> channel_map(issue.triage.incident_severity),
     success |-> TRUE]

notify_teams(issue) == Send("TeamsNotification", TeamsNotification(issue))

\* --------------------------------------------------------- IncidentReporter

severity_emoji(isev) ==
    CASE isev = "sev1" -> "red"
      [] isev = "sev2" -> "orange"
      [] isev = "sev3" -> "yellow"
      [] isev = "sev4" -> "blue"
      [] OTHER -> "white"

report_actions(actions) ==
    IF Len(actions) > 1 THEN SubSeq(actions, 1, 2)
    ELSE IF Len(actions) > 0 THEN <<actions[1]>>
    ELSE <<"Review logs">>

\* the report text as labelled lines, each a sequence of words
report(notification) ==
    LET issue == notification.github_issue
        triage == issue.triage
    IN  << <<"banner", <<severity_emoji(triage.incident_severity)>> >>,
           <<"Incident", triage.incident_title>>,
           <<"Ticket", <<ToString(issue.issue_number)>> >>,
           <<"GitHub", issue.issue_url>>,
           <<"Severity", <<Upper(triage.incident_severity)>> >>,
           <<"Priority", <<triage.priority>> >>,
           <<"Assigned", <<triage.assigned_team>> >>,
           <<"Affected Services", triage.affected_services>>,
           <<"Summary", triage.summary.description \o triage.summary.resource
                         \o triage.summary.elevated>>,
           <<"Recommended Actions", report_actions(triage.recommended_actions)>>,
           <<"Runbook", <<triage.runbook_url>> >>,
           <<"Channel", <<notification.channel>> >>,
           <<"Status", <<IF notification.success THEN "Posted" ELSE "Failed">> >> >>

\* mutant: the report is built and not yielded
generate_report_silent(notification) == NoEffect

generate_report(notification) == Yield(report(notification))

\* -------------------------------------------------------------- the graph

Executors ==
    {"alert_processor", "incident_triage", "github_creator", "teams_notifier",
     "incident_reporter"}

StartExecutor == "alert_processor"

\* add_edge calls in declaration order
Edges ==
    << <<"alert_processor", "incident_triage">>,
       <<"incident_triage", "github_creator">>,
       <<"github_creator", "teams_notifier">>,
       <<"teams_notifier", "incident_reporter">> >>

\* the message type each executor's handler is declared for
HandlerInput(e) ==
    CASE e = "alert_processor" -> "AlertInput"
      [] e = "incident_triage" -> "ProcessedAlert"
      [] e = "github_creator" -> "TriageResult"
      [] e = "teams_notifier" -> "GitHubIssue"
      [] e = "incident_reporter" -> "TeamsNotification"

HandlerName(e) ==
    CASE e = "alert_processor" -> "process_alert"
      [] e = "incident_triage" -> "triage_alert"
      [] e = "github_creator" -> "create_issue"
      [] e = "teams_notifier" -> "notify_teams"
      [] e = "incident_reporter" -> "generate_report"

\* ------------------------------------------------------------- the Runner

EmptyTable == [i \in {} |-> NoEffect]

\* the first edge declared from the executor (the graph has no case edges)
Successors(e) == {i \in 1..Len(Edges) : Edges[i][1] = e}

Route(e) == Edges[CHOOSE i \in Successors(e) : \A j \in Successors(e) : i <= j][2]

Routed(e, msgs) == [i \in 1..Len(msgs) |-> [target |-> Route(e), msg |-> msgs[i]]]

\* the table with one entry more for each request, under fresh ids
Opened(table, first, e, reqs) ==
    [i \in DOMAIN table \cup first..(first + Len(reqs) - 1) |->
        IF i \in DOMAIN table THEN table[i]
        ELSE [origin |-> e,
              payload |-> reqs[i - first + 1].payload,
              expected |-> reqs[i - first + 1].expected]]

Released(table, id) == [i \in DOMAIN table \ {id} |-> table[i]]

\* mutant: open requests do not keep a run from completing
RunStatus_ignores_pending(queue, table) ==
    IF queue # <<>> THEN "Running" ELSE "Completed"

\* what the caller sees of a run that did not fail
RunStatus(queue, table) ==
    IF queue # <<>> THEN "Running"
    ELSE IF DOMAIN table # {} THEN "Suspended"
    ELSE "Completed"

\* a send with no edge to take is NoMatchingRoute
Undeliverable(e, eff) == eff.sends # <<>> /\ Successors(e) = {}

\* the run after executor e's handler did eff, with rest still in flight and
\* table the requests still open
Apply(e, eff, rest, table) ==
    IF eff.raised \/ Undeliverable(e, eff)
    THEN /\ status' = "Failed"
         /\ inflight' = <<>>
         /\ pending' = table
         /\ UNCHANGED <<nextId, outputs, sent>>
    ELSE /\ inflight' = rest \o Routed(e, eff.sends)
         /\ pending' = Opened(table, nextId, e, eff.requests)
         /\ nextId' = nextId + Len(eff.requests)
         /\ outputs' = outputs \o eff.yields
         /\ sent' = sent \o [i \in 1..Len(eff.sends) |-> [from |-> e, type |-> eff.sends[i].type]]
         /\ status' = RunStatus(inflight', pending')

Init ==
    /\ alert = "none"
    /\ status = "Idle"
    /\ inflight = <<>>
    /\ pending = EmptyTable
    /\ nextId = 1
    /\ outputs = <<>>
    /\ dispatched = <<>>
    /\ calls = <<>>
    /\ sent = <<>>
    /\ delivered = <<>>
    /\ resumes = <<>>

\* the caller submits the initial message to the start executor
Submit(a) ==
    /\ status = "Idle"
    /\ alert' = a
    /\ inflight' = <<[target |-> StartExecutor, msg |-> [type |-> "AlertInput", body |-> a]]>>
    /\ status' = "Running"
    /\ UNCHANGED <<pending, nextId, outputs, dispatched, calls, sent, delivered,
                   resumes>>

\* the next message in flight is for executor e and of its handler's type
Deliverable(e) ==
    /\ status = "Running"
    /\ inflight # <<>>
    /\ Head(inflight).target = e
    /\ Head(inflight).msg.type = HandlerInput(e)

\* the Runner delivers the next message to e's handler, which does eff
Dispatch(e, eff) ==
    /\ dispatched' = Append(dispatched, e)
    /\ calls' = Append(calls, HandlerName(e))
    /\ Apply(e, eff, Tail(inflight), pending)
    /\ UNCHANGED <<alert, delivered, resumes>>

ProcessAlert ==
    /\ Deliverable("alert_processor")
    /\ Dispatch("alert_processor", process_alert(Head(inflight).msg.body))

TriageAlert ==
    /\ Deliverable("incident_triage")
    /\ Dispatch("incident_triage", triage_alert(Head(inflight).msg.body))

CreateIssue ==
    /\ Deliverable("github_creator")
    /\ \E n \in IssueNumbers :
          Dispatch("github_creator", create_issue(Head(inflight).msg.body, n))

NotifyTeams ==
    /\ Deliverable("teams_notifier")
    /\ Dispatch("teams_notifier", notify_teams(Head(inflight).msg.body))

GenerateReport ==
    /\ Deliverable("incident_reporter")
    /\ Dispatch("incident_reporter", generate_report(Head(inflight).msg.body))

\* the caller has control between the Runner's returns
CallerHasControl == status \in {"Suspended", "Completed", "Failed", "Abandoned"}

Outcome(id, response, result) == [id |-> id, type |-> response.type, result |-> result]

Rejected(id, response, error) ==
    /\ resumes' = Append(resumes, Outcome(id, response, error))
    /\ UNCHANGED <<status, inflight, pending, nextId, outputs, dispatched, calls,
                   sent, delivered>>

\* the caller delivers a response for a correlation id
Resume(id, response) ==
    /\ CallerHasControl
    /\ Len(resumes) < MaxResumes
    /\ UNCHANGED alert
    /\ IF id \notin DOMAIN pending
       THEN Rejected(id, response, "UnknownOrExpiredRequest")
       ELSE IF response.type # pending[id].expected
       THEN Rejected(id, response, "ResponseTypeMismatch")
       ELSE /\ resumes' = Append(resumes, Outcome(id, response, "ok"))
            /\ delivered' = Append(delivered, response)
            /\ calls' = Append(calls, "handle_approval")
            /\ Apply(pending[id].origin,
                     handle_approval(pending[id].payload, response),
                     inflight, Released(pending, id))
            /\ UNCHANGED dispatched

\* mutant: abandoning leaves the entries in the table
AbandonedTable_kept == pending

\* the table of an abandoned run: every open entry released
AbandonedTable == EmptyTable

\* the caller abandons a suspended run
Abandon ==
    /\ status = "Suspended"
    /\ status' = "Abandoned"
    /\ pending' = AbandonedTable
    /\ inflight' = <<>>
    /\ UNCHANGED <<alert, nextId, outputs, dispatched, calls, sent, delivered,
                   resumes>>

Next ==
    \/ \E a \in Alerts : Submit(a)
    \/ ProcessAlert
    \/ TriageAlert
    \/ CreateIssue
    \/ NotifyTeams
    \/ GenerateReport
    \/ \E id \in CorrelationIds, r \in Responses : Resume(id, r)
    \/ Abandon

Spec == Init /\ [][Next]_vars

\* the Runner dispatches what is in flight until the run is quiescent; the
\* caller's resume and abandon calls may never come
RunnerStep == ProcessAlert \/ TriageAlert \/ CreateIssue \/ NotifyTeams \/ GenerateReport

FairSpec == Spec /\ WF_vars(RunnerStep)

\* ------------------------------------------------------ helpers of the claims

Count(seq, P(_)) == Cardinality({i \in 1..Len(seq) : P(seq[i])})

Last(seq) == seq[Len(seq)]

IsPrefix(p, q) == Len(p) <= Len(q) /\ SubSeq(q, 1, Len(p)) = p

\* the report text holds the word, letter case included
Embeds(rep, word) == \E i \in 1..Len(rep) : Contains(rep[i][2], word)

HasLabel(labels, label) == \E i \in 1..Len(labels) : labels[i] = label

CarriesTriage(m) == m.type \in {"TriageResult", "GitHubIssue", "TeamsNotification"}

TriageOf(m) ==
    CASE m.type = "TriageResult" -> m.body
      [] m.type = "GitHubIssue" -> m.body.triage
      [] m.type = "TeamsNotification" -> m.body.github_issue.triage

CarriesIssue(m) == m.type \in {"GitHubIssue", "TeamsNotification"}

IssueOf(m) ==
    CASE m.type = "GitHubIssue" -> m.body
      [] m.type = "TeamsNotification" -> m.body.github_issue

InFlight == {inflight[i].msg : i \in 1..Len(inflight)}

Started == status # "Idle"

Approve == [type |-> "TriageApproval", approved |-> <<"approve">>, notes |-> ""]

PriorityOf(sev) ==
    CASE sev = "sev1" -> "P1" [] sev = "sev2" -> "P2" [] sev = "sev3" -> "P3" [] sev = "sev4" -> "P4"

UpperCased(sev) ==
    CASE sev = "sev1" -> "SEV1" [] sev = "sev2" -> "SEV2" [] sev = "sev3" -> "SEV3"
      [] sev = "sev4" -> "SEV4"

ChannelOf(sev) ==
    CASE sev = "sev1" -> "#incident-critical" [] sev = "sev2" -> "#incident-high"
      [] sev = "sev3" -> "#ops-alerts" [] sev = "sev4" -> "#ops-info"

\* how the report is said to show a severity: upper-cased, or as it is
Shown(sev, upper) == IF upper THEN UpperCased(sev) ELSE sev

\* --------------------------------------------------------------------- C1

\* the alert of the round trip: critical, vm-db-01, cpu_percent 94.7
C1Alert ==
    /\ Started
    /\ alert.severity = "critical"
    /\ alert.resource = <<"vm", "db", "01">>
    /\ alert.metrics.json = "object"
    /\ "cpu_percent" \in DOMAIN alert.metrics.items
    /\ alert.metrics.items["cpu_percent"].t = "num"
    /\ alert.metrics.items["cpu_percent"].n = 947

C1Body(upper) ==
    C1Alert =>
      /\ calls = <<"process_alert", "triage_alert">> /\ status # "Abandoned"
            => status = "Suspended"
      /\ status = "Suspended" =>
            /\ Cardinality(DOMAIN pending) = 1
            /\ \A id \in DOMAIN pending : pending[id].payload.incident_severity = "sev1"
            /\ outputs = <<>>
      /\ delivered = <<Approve>> =>
            /\ status \in {"Running", "Completed"}
            /\ \A m \in InFlight : CarriesTriage(m) =>
                  /\ TriageOf(m).incident_severity = "sev1"
                  /\ TriageOf(m).priority = "P1"
                  /\ TriageOf(m).incident_title = <<"[", "SEV1", "]">> \o alert.title
            /\ status = "Completed" =>
                  /\ Len(outputs) = 1
                  /\ Embeds(outputs[1], Shown("sev1", upper))
                  /\ Embeds(outputs[1], "P1")

\* C1 (as amended): the critical vm-db-01 alert with cpu_percent 94.7 gives a
\* Suspended run with exactly one pending request, whose payload's
\* incident_severity is sev1, and no output yet; resuming it with "approve"
\* gives a Completed run whose one output embeds SEV1 (the severity in upper
\* case) and P1, the triage's severity, priority and title left as they were.
C1_RoundTripApprove == C1Body(TRUE)

\* C1 as stated: the output embeds sev1, as written, and P1.
C1_OutputEmbedsLowerCase == C1Body(FALSE)

C1_Witness ==
    /\ C1Alert
    /\ status = "Completed"
    /\ delivered = <<Approve>>
    /\ Len(outputs) = 1
    /\ Embeds(outputs[1], "SEV1")

\* --------------------------------------------------------------------- C2

Overridden == Len(delivered) = 1 /\ delivered[1].approved[1] = "override"

\* the N of "override to sevN"
OverrideTo == delivered[1].approved[3]

\* the severity the triage asked approval for
TriagedAs == IF alert.severity = "critical" THEN "sev1" ELSE "sev2"

C2Labels(labels) ==
    /\ HasLabel(labels, <<"severity:", OverrideTo>>)
    /\ HasLabel(labels, <<"priority:", PriorityOf(OverrideTo)>>)
    /\ TriagedAs # OverrideTo =>
          /\ ~HasLabel(labels, <<"severity:", TriagedAs>>)
          /\ ~HasLabel(labels, <<"priority:", PriorityOf(TriagedAs)>>)

C2Report(rep, upper) ==
    /\ Embeds(rep, Shown(OverrideTo, upper))
    /\ Embeds(rep, PriorityOf(OverrideTo))
    /\ Embeds(rep, ChannelOf(OverrideTo))
    /\ TriagedAs # OverrideTo =>
          /\ ~Embeds(rep, TriagedAs)
          /\ ~Embeds(rep, UpperCased(TriagedAs))
          /\ ~Embeds(rep, PriorityOf(TriagedAs))
          /\ ~Embeds(rep, ChannelOf(TriagedAs))

C2Body(upper) ==
    Overridden =>
      /\ OverrideTo \in {"sev1", "sev2", "sev3"}
      /\ status \in {"Running", "Completed"}
      /\ \A m \in InFlight :
            /\ CarriesTriage(m) =>
                  /\ TriageOf(m).incident_severity = OverrideTo
                  /\ TriageOf(m).priority = PriorityOf(OverrideTo)
                  /\ TriageOf(m).incident_title
                        = <<"[", UpperCased(OverrideTo), "]">> \o alert.title
            /\ CarriesIssue(m) => C2Labels(IssueOf(m).labels)
            /\ m.type = "TeamsNotification" =>
                  /\ m.body.channel = ChannelOf(OverrideTo)
                  /\ TriagedAs # OverrideTo => m.body.channel # ChannelOf(TriagedAs)
      /\ status = "Completed" =>
            /\ Len(outputs) = 1
            /\ C2Report(outputs[1], upper)

\* C2 (as amended): after a resume with "override to sevN" (N in 1..3) every
\* downstream stage carries the overridden severity: the triage sent on has
\* severity sevN and priority PN, the issue labels contain severity:sevN and
\* priority:PN, the notification channel is the one mapped to sevN, and the
\* final report embeds SEVN (the severity in upper case), PN and that channel;
\* when N differs from the triaged severity nothing downstream carries the
\* triaged severity, priority or channel.
C2_OverridePropagates == C2Body(TRUE)

\* C2 as stated: the output embeds sevN, as written, and PN.
C2_OutputEmbedsLowerCase == C2Body(FALSE)

C2_Witness ==
    /\ C1Alert
    /\ Overridden
    /\ OverrideTo = "sev2"
    /\ status = "Completed"
    /\ Embeds(outputs[1], "SEV2")
    /\ Embeds(outputs[1], "P2")
    /\ Embeds(outputs[1], "#incident-high")

\* --------------------------------------------------------------------- C3

\* C3: a run for an alert of severity "low" or "medium" never opens a request,
\* is never Suspended, and ends Completed.
C3_LowMediumCompletes ==
    Started /\ alert.severity \in {"low", "medium"} =>
      /\ nextId = 1
      /\ DOMAIN pending = {}
      /\ status \in {"Running", "Completed"}

\* --------------------------------------------------------------------- C4

IsApprovalCall(c) == c = "handle_approval"

FromTriage(m) == m.from = "incident_triage"

IsOk(r) == r.result = "ok"

\* C4: of the resume calls for one correlation id the first that succeeds
\* removes the entry and runs the response handler, every later one fails
\* with UnknownOrExpiredRequest; handle_approval runs once for each accepted
\* resume and at most once per request opened, and incident_triage sends at
\* most one TriageResult downstream.
C4_ResumeOnce ==
    /\ \A i, j \in 1..Len(resumes) :
          i < j /\ resumes[i].id = resumes[j].id /\ resumes[i].result = "ok"
             => resumes[j].result = "UnknownOrExpiredRequest"
    /\ \A i \in 1..Len(resumes) :
          resumes[i].result = "ok" => resumes[i].id \notin DOMAIN pending
    /\ Count(calls, IsApprovalCall) = Count(resumes, IsOk)
    /\ Count(calls, IsApprovalCall) = Len(delivered)
    /\ Count(calls, IsApprovalCall) <= nextId - 1
    /\ Count(sent, FromTriage) <= 1

C4_Witness ==
    /\ Len(resumes) = 2
    /\ resumes[1] = [id |-> 1, type |-> "TriageApproval", result |-> "ok"]
    /\ resumes[2] = [id |-> 1, type |-> "TriageApproval", result |-> "UnknownOrExpiredRequest"]
    /\ Count(calls, IsApprovalCall) = 1

\* --------------------------------------------------------------------- C5

\* C5: a resume of an open request with a value that is no TriageApproval
\* fails with ResponseTypeMismatch, runs no response handler and leaves the
\* entry in the table and the run Suspended; a TriageApproval is never
\* rejected as mistyped, so the next resume of that id with one succeeds
\* (in a run that was not abandoned in between).
C5_TypeMismatchRetryable ==
    /\ \A i \in 1..Len(resumes) :
          /\ resumes[i].result = "ResponseTypeMismatch" => resumes[i].type # "TriageApproval"
          /\ resumes[i].type # "TriageApproval" => resumes[i].result # "ok"
          /\ resumes[i].result = "ResponseTypeMismatch" /\ i < Len(resumes)
               /\ resumes[i + 1].id = resumes[i].id
               /\ resumes[i + 1].type = "TriageApproval"
               /\ status # "Abandoned"
               => resumes[i + 1].result = "ok"
    /\ resumes # <<>> /\ Last(resumes).result = "ResponseTypeMismatch"
          /\ status # "Abandoned" =>
          /\ status = "Suspended"
          /\ Last(resumes).id \in DOMAIN pending
          /\ pending[Last(resumes).id].expected = "TriageApproval"
          /\ Count(calls, IsApprovalCall) = Count(resumes, IsOk)
          /\ inflight = <<>>
    /\ resumes # <<>> /\ resumes[1].id = 1 /\ resumes[1].type # "TriageApproval"
          /\ nextId = 2 /\ status # "Abandoned"
          => resumes[1].result = "ResponseTypeMismatch"

C5_Witness ==
    /\ Len(resumes) = 2
    /\ resumes[1] = [id |-> 1, type |-> "str", result |-> "ResponseTypeMismatch"]
    /\ resumes[2] = [id |-> 1, type |-> "TriageApproval", result |-> "ok"]
    /\ calls = <<"process_alert", "triage_alert", "handle_approval">>

\* --------------------------------------------------------------------- C6

C6Released ==
    status = "Abandoned" => DOMAIN pending = {} /\ inflight = <<>>

C6Step ==
    status = "Abandoned" =>
      /\ status' = "Abandoned"
      /\ UNCHANGED <<calls, dispatched, sent, outputs, delivered, pending, inflight>>
      /\ resumes' # resumes => Last(resumes').result = "UnknownOrExpiredRequest"

\* C6: abandoning a Suspended run releases all its open requests; afterwards
\* every resume call fails with UnknownOrExpiredRequest and no response
\* handler, no downstream stage and no output happens for the run.
C6_AbandonReleases == [](C6Released) /\ [][C6Step]_vars

C6_Witness ==
    /\ status = "Abandoned"
    /\ resumes = <<[id |-> 1, type |-> "TriageApproval", result |-> "UnknownOrExpiredRequest"]>>
    /\ calls = <<"process_alert", "triage_alert">>
    /\ nextId = 2

\* --------------------------------------------------------------------- C7

\* C7: a run with an open pending request is not Completed, and a Completed
\* run has no open request and no message in flight.
C7_CompletedMeansQuiescent ==
    /\ DOMAIN pending # {} => status # "Completed"
    /\ status = "Completed" => DOMAIN pending = {} /\ inflight = <<>>

C7_Witness ==
    /\ status = "Suspended"
    /\ DOMAIN pending = {1}
    /\ inflight = <<>>
    /\ outputs = <<>>

\* --------------------------------------------------------------------- C8

Chain ==
    <<"alert_processor", "incident_triage", "github_creator", "teams_notifier",
      "incident_reporter">>

ChainHandlers ==
    <<"process_alert", "triage_alert", "create_issue", "notify_teams", "generate_report">>

IsMessageHandlerCall(c) == c # "handle_approval"

\* C8: executors are dispatched in the order of the declared edges: the
\* dispatch order of a run is a prefix of alert_processor, incident_triage,
\* github_creator, teams_notifier, incident_reporter (no stage before its
\* predecessor, none skipped, none twice), the message handlers run in that
\* same order, and a Completed run has dispatched all five.
C8_DispatchOrder ==
    /\ IsPrefix(dispatched, Chain)
    /\ IsPrefix(SelectSeq(calls, IsMessageHandlerCall), ChainHandlers)
    /\ Len(SelectSeq(calls, IsMessageHandlerCall)) = Len(dispatched)
    /\ status = "Completed" => dispatched = Chain
    /\ \A i \in 1..Len(inflight) :
          /\ Len(dispatched) < Len(Chain)
          /\ inflight[i].target = Chain[Len(dispatched) + 1]

C8_Witness ==
    /\ status = "Completed"
    /\ dispatched = Chain
    /\ calls = <<"process_alert", "triage_alert", "handle_approval", "create_issue",
                 "notify_teams", "generate_report">>

\* --------------------------------------------------------------------- C9

\* C9: a Completed run has exactly one output, yielded by incident_reporter
\* as the run's last step; no output exists before that, none while the run
\* is Suspended.
C9_OneReportPerRun ==
    /\ status = "Completed" => Len(outputs) = 1
    /\ outputs # <<>> =>
          /\ Len(outputs) = 1
          /\ status = "Completed"
          /\ Last(calls) = "generate_report"
          /\ Last(dispatched) = "incident_reporter"
    /\ status = "Suspended" => outputs = <<>>

C9_Witness ==
    /\ status = "Completed"
    /\ Len(outputs) = 1
    /\ Last(calls) = "generate_report"
    /\ delivered # <<>>

\* -------------------------------------------------------------------- C10

FromProcessor(m) == m.from = "alert_processor"

C10Problems(pa) ==
    /\ Contains(pa.validation_errors, "Missing alert_id") <=> alert.alert_id = ""
    /\ Contains(pa.validation_errors, "Missing title") <=> alert.title = <<>>
    /\ pa.is_valid <=> pa.validation_errors = <<>>
    /\ pa.is_valid <=> (alert.alert_id # "" /\ alert.title # <<>>)

\* C10: for every alert, also one with an empty alert_id or title,
\* process_alert does not fail the run: it sends exactly one ProcessedAlert,
\* routed to incident_triage, that carries the validation problems, with
\* is_valid false exactly when there is one.
C10_ValidationRecoverable ==
    /\ calls # <<>> =>
          /\ calls[1] = "process_alert"
          /\ Count(sent, FromProcessor) = 1
          /\ sent[1] = [from |-> "alert_processor", type |-> "ProcessedAlert"]
    /\ Len(calls) = 1 =>
          /\ status = "Running"
          /\ Len(inflight) = 1
          /\ inflight[1].target = "incident_triage"
          /\ inflight[1].msg.type = "ProcessedAlert"
          /\ C10Problems(inflight[1].msg.body)
    /\ Len(calls) >= 2 => calls[2] = "triage_alert"
    /\ status = "Failed" => Len(calls) >= 2

C10_Witness ==
    /\ Len(calls) = 1
    /\ alert.alert_id = ""
    /\ alert.title = <<>>
    /\ inflight[1].msg.body.is_valid = FALSE
    /\ Len(inflight[1].msg.body.validation_errors) = 2

\* -------------------------------------------------------------------- C11

\* what the handler invoked in this step did through its context
C11Sends == Len(sent') - Len(sent)

C11Requests == nextId' - nextId

C11Yields == Len(outputs') - Len(outputs)

C11Kinds ==
    (IF C11Sends > 0 THEN 1 ELSE 0) + (IF C11Requests > 0 THEN 1 ELSE 0)
        + (IF C11Yields > 0 THEN 1 ELSE 0)

C11Step == calls' # calls => C11Kinds = 1 /\ C11Requests <= 1

\* C11: every handler invocation does exactly one of: send messages
\* downstream, open exactly one external request, yield terminal output;
\* triage_alert never both requests and sends, and never does neither.
C11_ExactlyOneEffect == [][C11Step]_vars

\* -------------------------------------------------------------------- C12

IsDownstreamCall(c) == c \in {"create_issue", "notify_teams", "generate_report"}

Gated == Started /\ alert.severity \in {"critical", "high"}

\* the position of the first call of the handler in calls, 0 when it never ran
FirstCall(h) ==
    IF \E i \in 1..Len(calls) : calls[i] = h
    THEN CHOOSE i \in 1..Len(calls) : calls[i] = h /\ \A j \in 1..(i - 1) : calls[j] # h
    ELSE 0

\* C12: in a run for a "critical" or "high" alert no issue is created, no
\* notification is posted and no report is yielded before a response to the
\* run's pending request was delivered and handle_approval ran; a message
\* reaches github_creator only after handle_approval.
C12_ApprovalGate ==
    Gated =>
      /\ \A i \in 1..Len(calls) : IsDownstreamCall(calls[i]) =>
            /\ FirstCall("handle_approval") > 0
            /\ FirstCall("handle_approval") < i
      /\ delivered = <<>> =>
            /\ outputs = <<>>
            /\ \A i \in 1..Len(inflight) :
                  inflight[i].target \in {"alert_processor", "incident_triage"}
            /\ \A i \in 1..Len(sent) : sent[i].from = "alert_processor"
      /\ \A i \in 1..Len(sent) : sent[i].from = "incident_triage" =>
            /\ Len(delivered) = 1
            /\ FirstCall("handle_approval") = 3

C12_Witness ==
    /\ Gated
    /\ alert.severity = "high"
    /\ status = "Completed"
    /\ calls = <<"process_alert", "triage_alert", "handle_approval", "create_issue",
                 "notify_teams", "generate_report">>
    /\ Len(outputs) = 1

\* -------------------------------------------------------------------- C13

\* every TriageResult of the run: payloads of open requests and what
\* messages in flight carry
C13Triages ==
    {pending[id].payload : id \in DOMAIN pending}
        \cup {TriageOf(m) : m \in {x \in InFlight : CarriesTriage(x)}}

C13Consistent(t) ==
    /\ t.incident_severity \in {"sev1", "sev2", "sev3", "sev4"}
    /\ t.priority = PriorityOf(t.incident_severity)
    /\ IsPrefix(<<"[", UpperCased(t.incident_severity), "]">>, t.incident_title)
    /\ t.incident_title = <<"[", UpperCased(t.incident_severity), "]">> \o t.alert.title

\* C13: every TriageResult of a run, as payload of a pending request, sent by
\* triage_alert or sent by handle_approval after any response, has priority
\* PN exactly when its incident_severity is sevN, and a title prefixed by
\* that severity in upper case.
C13_SeverityPriorityConsistent == \A t \in C13Triages : C13Consistent(t)

C13_Witness ==
    /\ Len(delivered) = 1
    /\ delivered[1].approved = <<"override", "to", "sev3">>
    /\ alert.severity = "critical"
    /\ \E m \in InFlight :
          /\ m.type = "TriageResult"
          /\ m.body.incident_severity = "sev3"
          /\ m.body.priority = "P3"
          /\ m.body.incident_title = <<"[", "SEV3", "]">> \o alert.title

\* -------------------------------------------------------------------- C14

C14Unattended == Started /\ alert.severity \in {"low", "medium"}

C14Resumed == Started /\ alert.severity \in {"critical", "high"} /\ delivered # <<>>

\* C14: every run terminates: a run for a "low" or "medium" alert reaches
\* Completed with no caller interaction; a run for a "critical" or "high"
\* alert reaches Completed once a correctly typed response was delivered to
\* its pending request, and never suspends again after that resume.
C14_EveryRunCompletes ==
    /\ [](C14Unattended => <>(status = "Completed"))
    /\ [](C14Resumed => <>(status = "Completed"))
    /\ [](C14Resumed => status # "Suspended")

\* -------------------------------------------------------------------- C15

\* C15: no run ends Failed because of its alert's metrics: for every metrics
\* string (a JSON object, malformed JSON, JSON that is no object)
\* process_alert and triage_alert complete without raising.
C15_MetricsNeverFailRun == status # "Failed"

====
